---- MODULE Spec2Model ----
(***************************************************************************)
(* A model of ts890_n1mm.py: the TS-890 CAT session (handshake, receive-   *)
(* and-dispatch loop, heartbeat), the radio status object Ts890, the       *)
(* bounded spectrum queue and the N1MM publisher.                          *)
(*                                                                         *)
(* Text is a sequence of one-character strings.  A nullable Python value   *)
(* is None (the empty tuple) or <<v>>.                                     *)
(***************************************************************************)
EXTENDS Integers, Sequences, FiniteSets, TLC

\* Lines the receive loop reads in one session.
MaxRx == 4
\* Heartbeat commands written in one session.
MaxBeats == 1

\* Largest start value of the ramp payloads of SpecDecode.
MaxRamp == 7

MAX_QUEUE_DEPTH == 2
\* Fixed length of a ##DD2 spectrum line.
DD_LEN == 1286
\* The N1MM scale inversion point.
SCALE_TOP == 140

None == << >>
Some(v) == <<v>>

Min(a, b) == IF a < b THEN a ELSE b
Max(a, b) == IF a > b THEN a ELSE b

(***************************************************************************)
(* Python text primitives.                                                 *)
(***************************************************************************)
\* s[a:b] for 0 <= a, 0 <= b (clamped to the length, as Python slices are).
Slice(s, a, b) == SubSeq(s, a + 1, Min(b, Len(s)))
\* s[i], 0-based.
At(s, i) == s[i + 1]

DecDigits == <<"0", "1", "2", "3", "4", "5", "6", "7", "8", "9">>
HexUpper == <<"A", "B", "C", "D", "E", "F">>
HexLower == <<"a", "b", "c", "d", "e", "f">>

\* The value of character c as a digit, or -1 when it is not a digit at all.
DigitVal(c) ==
    IF \E i \in 1..10 : DecDigits[i] = c
    THEN (CHOOSE i \in 1..10 : DecDigits[i] = c) - 1
    ELSE IF \E i \in 1..6 : HexUpper[i] = c
    THEN (CHOOSE i \in 1..6 : HexUpper[i] = c) + 9
    ELSE IF \E i \in 1..6 : HexLower[i] = c
    THEN (CHOOSE i \in 1..6 : HexLower[i] = c) + 9
    ELSE -1

IsDigit(c, base) == DigitVal(c) >= 0 /\ DigitVal(c) < base

\* s.strip() for the one whitespace character of the feed, the space.
Strip(s) ==
    IF \A i \in 1..Len(s) : s[i] = " " THEN << >>
    ELSE LET first == CHOOSE i \in 1..Len(s) :
                          s[i] # " " /\ \A j \in 1..(i - 1) : s[j] = " "
             last == CHOOSE i \in 1..Len(s) :
                         s[i] # " " /\ \A j \in (i + 1)..Len(s) : s[j] = " "
         IN  SubSeq(s, first, last)

\* The digit part of an integer literal: digits, single underscores between them.
DigitsOk(d, base) ==
    /\ Len(d) > 0
    /\ \A i \in 1..Len(d) :
          \/ IsDigit(d[i], base)
          \/ /\ d[i] = "_"
             /\ i > 1 /\ i < Len(d)
             /\ IsDigit(d[i - 1], base) /\ IsDigit(d[i + 1], base)

\* The value of a digit part, most significant digit first.
DigitsVal(d, base) ==
    LET acc[i \in 0..Len(d)] ==
            IF i = 0 THEN 0
            ELSE IF d[i] = "_" THEN acc[i - 1]
            ELSE acc[i - 1] * base + DigitVal(d[i])
    IN  acc[Len(d)]

\* int(s, base) for the field widths the program parses (a "0x" prefix cannot
\* be followed by a digit in a field of one or two characters, and is not a
\* base-10 literal): [ok |-> FALSE] stands for ValueError.
PyInt(s, base) ==
    LET t == Strip(s)
        signed == Len(t) > 0 /\ t[1] \in {"+", "-"}
        d == IF signed THEN Tail(t) ELSE t
    IN  IF DigitsOk(d, base)
        THEN [ok |-> TRUE,
              val |-> IF signed /\ t[1] = "-"
                      THEN 0 - DigitsVal(d, base)
                      ELSE DigitsVal(d, base)]
        ELSE [ok |-> FALSE, val |-> 0]

(***************************************************************************)
(* class Ts890: the radio status object.                                   *)
(***************************************************************************)
\* The state after Ts890.__init__ and the two assignments of the main block.
Ts890Init(is_admin, freq_offset, cw_decoder) ==
    [account |-> <<"O", "P">>,
     password |-> <<"P", "W">>,
     is_admin |-> is_admin,
     bs_mode |-> None,
     bs_span_hz |-> None,
     bs_expanded_span_offset_hz |-> 0,
     bs_lower_hz |-> None,
     bs_upper_hz |-> None,
     bs_expanded |-> None,
     receiver_vfo |-> None,
     operating_mode |-> None,
     freq_offset |-> freq_offset,
     cw_decoder |-> cw_decoder]

is_centre_mode(t) == t.bs_mode = Some(0)

\* Variant of the bs_mode setter that keeps the edges on a switch to Centre.
bs_mode_set_KeepEdges(t, mode) ==
    IF 0 <= mode /\ mode < 3 /\ Some(mode) # t.bs_mode
    THEN [t EXCEPT !.bs_mode = Some(mode)]
    ELSE t

\* Variant of the bs_mode setter that does not compare with the stored mode.
bs_mode_set_Unconditional(t, mode) ==
    IF 0 <= mode /\ mode < 3
    THEN IF mode = 0
         THEN [t EXCEPT !.bs_mode = Some(mode),
                        !.bs_lower_hz = None, !.bs_upper_hz = None]
         ELSE [t EXCEPT !.bs_mode = Some(mode)]
    ELSE t

\* The bs_mode setter: 3 modes ('centre', 'fixed', 'auto scroll').
bs_mode_set(t, mode) ==
    IF 0 <= mode /\ mode < 3 /\ Some(mode) # t.bs_mode
    THEN LET t1 == [t EXCEPT !.bs_mode = Some(mode)]
         IN  IF is_centre_mode(t1)
             THEN [t1 EXCEPT !.bs_lower_hz = None, !.bs_upper_hz = None]
             ELSE t1
    ELSE t

spans == <<5000, 10000, 20000, 30000, 50000, 100000, 200000, 500000>>
expanded == <<15000, 30000, 60000, 90000, 150000, 300000, 400000, 500000>>

\* Variant of the span setter that leaves the half-offset as it was.
bs_span_hz_set_KeepOffset(t, span) ==
    IF 0 <= span /\ span < Len(spans) /\ Some(span) # t.bs_span_hz
    THEN [t EXCEPT !.bs_span_hz = Some(spans[span + 1])]
    ELSE t

\* The bs_span_hz setter.  It compares the index with the stored span in Hz;
\* every difference expanded - span is even, so the float quotient is exact.
bs_span_hz_set(t, span) ==
    IF 0 <= span /\ span < Len(spans) /\ Some(span) # t.bs_span_hz
    THEN [t EXCEPT !.bs_span_hz = Some(spans[span + 1]),
                   !.bs_expanded_span_offset_hz =
                       (expanded[span + 1] - spans[span + 1]) \div 2]
    ELSE t

bs_expanded_set(t, e) == [t EXCEPT !.bs_expanded = Some(e # 0)]

\* The receiver_vfo setter: 3 sources ('VFO A', 'VFO B', 'Memory channel').
receiver_vfo_set(t, vfo) ==
    IF 0 <= vfo /\ vfo < 3 /\ Some(vfo) # t.receiver_vfo
    THEN [t EXCEPT !.receiver_vfo = Some(vfo)]
    ELSE t

vfo_a_active(t) == t.receiver_vfo = Some(0)
vfo_b_active(t) == t.receiver_vfo = Some(1)

\* The operating_mode setter: a 16-entry table.
operating_mode_set(t, mode) ==
    IF 0 <= mode /\ mode < 16 /\ Some(mode) # t.operating_mode
    THEN [t EXCEPT !.operating_mode = Some(mode)]
    ELSE t

\* Python truth value of a nullable integer: None and 0 are false.
Truthy(x) == x # None /\ x[1] # 0

\* has_all_required_info returns "lower and upper"; its callers only test
\* the truth value of the result.
has_all_required_info(t) == Truthy(t.bs_lower_hz) /\ Truthy(t.bs_upper_hz)

\* Only read once has_all_required_info is true, so both edges are integers.
bs_expanded_lower_hz(t) ==
    IF t.bs_expanded = Some(TRUE)
    THEN t.bs_lower_hz[1] - t.bs_expanded_span_offset_hz
    ELSE t.bs_lower_hz[1]

bs_expanded_upper_hz(t) ==
    IF t.bs_expanded = Some(TRUE)
    THEN t.bs_upper_hz[1] + t.bs_expanded_span_offset_hz
    ELSE t.bs_upper_hz[1]

\* Variant of the sample that takes the edges the wrong way round.
SpectrumData_Swapped(t, data) ==
    [data |-> data,
     lower_hz |-> bs_expanded_upper_hz(t) + t.freq_offset,
     upper_hz |-> bs_expanded_lower_hz(t) + t.freq_offset]

\* Variant of the sample whose upper edge is the stored one, not the expanded.
SpectrumData_UpperStored(t, data) ==
    [data |-> data,
     lower_hz |-> bs_expanded_lower_hz(t) + t.freq_offset,
     upper_hz |-> t.bs_upper_hz[1] + t.freq_offset]

\* SpectrumData.__init__: the sample snapshots both edges.
SpectrumData(t, data) ==
    [data |-> data,
     lower_hz |-> bs_expanded_lower_hz(t) + t.freq_offset,
     upper_hz |-> bs_expanded_upper_hz(t) + t.freq_offset]

(***************************************************************************)
(* CAT commands written by the session.                                    *)
(***************************************************************************)
CMD_CN == <<"#", "#", "C", "N", ";">>
CMD_AI2 == <<"A", "I", "2", ";">>
CMD_BS3 == <<"B", "S", "3", ";">>
CMD_BS4 == <<"B", "S", "4", ";">>
CMD_BSM0 == <<"B", "S", "M", "0", ";">>
CMD_BSO == <<"B", "S", "O", ";">>
CMD_FR == <<"F", "R", ";">>
CMD_FA == <<"F", "A", ";">>
CMD_FB == <<"F", "B", ";">>
CMD_OM0 == <<"O", "M", "0", ";">>
CMD_DD02 == <<"D", "D", "0", "2", ";">>
CMD_DD00 == <<"D", "D", "0", "0", ";">>

\* Variant of the length format that does not pad to two digits.
Fmt02_NoPad(n) ==
    IF n < 10 THEN <<DecDigits[n + 1]>>
    ELSE <<DecDigits[(n \div 10) + 1], DecDigits[(n % 10) + 1]>>

\* f'{n:02}' for 0 <= n < 100.
Fmt02(n) == <<DecDigits[(n \div 10) + 1], DecDigits[(n % 10) + 1]>>

\* cat_id: the login command.
cat_id(t) ==
    LET acct_type == IF t.is_admin THEN 0 ELSE 1
    IN  <<"#", "#", "I", "D", DecDigits[acct_type + 1]>>
        \o Fmt02(Len(t.account)) \o Fmt02(Len(t.password))
        \o t.account \o t.password \o <<";">>

(***************************************************************************)
(* asyncio.Queue(maxsize), the operations the program uses: the items,   *)
(* oldest first, and the count of items put and not yet marked done.       *)
(***************************************************************************)
Queue == [items |-> << >>, unfinished_tasks |-> 0]
full(q) == Len(q.items) >= MAX_QUEUE_DEPTH
\* get_nowait: QueueEmpty is caught by the caller.
\* Variant of get_nowait that removes the newest item.
get_nowait_Newest(q) ==
    IF Len(q.items) = 0 THEN q
    ELSE [q EXCEPT !.items = SubSeq(@, 1, Len(@) - 1)]

get_nowait(q) == IF Len(q.items) = 0 THEN q ELSE [q EXCEPT !.items = Tail(@)]
\* put_nowait: QueueFull is caught by the caller.
put_nowait(q, x) ==
    IF full(q) THEN q
    ELSE [items |-> Append(q.items, x), unfinished_tasks |-> q.unfinished_tasks + 1]
task_done(q) == [q EXCEPT !.unfinished_tasks = @ - 1]

(***************************************************************************)
(* The CAT response handlers.  A handler maps the status object, the queue *)
(* and one line to: the new status object, the new queue, the commands it  *)
(* wrote, and the exception that escaped it ("none" when it returned).     *)
(***************************************************************************)
Res(t, q, sent, e) == [t |-> t, q |-> q, sent |-> sent, exc |-> e]

\* Variant of _send_cmd that passes the command to the writer in two pieces.
_send_cmd_InTwoWrites(stream, cmd) ==
    stream \o <<SubSeq(cmd, 1, 1), SubSeq(cmd, 2, Len(cmd))>>

\* _send_cmd: one writer.write() call with the whole command, then drain().
\* A stream is the sequence of the arguments of the write() calls made.
_send_cmd(stream, cmd) == Append(stream, cmd)

\* Consecutive _send_cmd calls of one coroutine.
SendAll(stream, cmds) ==
    LET acc[i \in 0..Len(cmds)] ==
            IF i = 0 THEN stream ELSE _send_cmd(acc[i - 1], cmds[i])
    IN  acc[Len(cmds)]

_handle_cat_bs(t, q, cat_msg) ==
    IF Len(cat_msg) > 4
    THEN LET cmd == Slice(cat_msg, 0, 3)
         IN  IF cmd = <<"B", "S", "M">>
             THEN IF ~is_centre_mode(t) /\ Len(cat_msg) = 21 /\ At(cat_msg, 3) = "0"
                  THEN LET lo == PyInt(Slice(cat_msg, 4, 12), 10)
                           hi == PyInt(Slice(cat_msg, 12, 20), 10)
                           t1 == IF lo.ok
                                 THEN [t EXCEPT !.bs_lower_hz = Some(lo.val)]
                                 ELSE t
                           t2 == IF lo.ok /\ hi.ok
                                 THEN [t1 EXCEPT !.bs_upper_hz = Some(hi.val)]
                                 ELSE t1
                       IN  Res(t2, q, << >>, "none")
                  ELSE Res(t, q, << >>, "none")
             ELSE IF cmd = <<"B", "S", "3">>
             THEN LET m == PyInt(<<At(cat_msg, 3)>>, 10)
                      t1 == IF m.ok THEN bs_mode_set(t, m.val) ELSE t
                  IN  IF m.ok /\ is_centre_mode(t1)
                      THEN Res(t1, q, <<CMD_FR>>, "none")
                      ELSE Res(t1, q, << >>, "none")
             ELSE IF cmd = <<"B", "S", "4">>
             THEN LET m == PyInt(<<At(cat_msg, 3)>>, 10)
                  IN  Res(IF m.ok THEN bs_span_hz_set(t, m.val) ELSE t,
                          q, << >>, "none")
             ELSE IF cmd = <<"B", "S", "O">>
             THEN LET m == PyInt(<<At(cat_msg, 3)>>, 10)
                  IN  Res(IF m.ok THEN bs_expanded_set(t, m.val) ELSE t,
                          q, << >>, "none")
             ELSE Res(t, q, << >>, "none")
    ELSE Res(t, q, << >>, "none")

\* Variant of the rescale without the floor at 0.
Rescale_NoFloor(val) == SCALE_TOP - val

\* Convert value to N1MM scale.
Rescale(val) == IF val < SCALE_TOP THEN SCALE_TOP - val ELSE 0

\* The number of iterations of "for i in range(5, len(cat_msg)-1, 2)".
DecodeCount(cat_msg) == (Len(cat_msg) - 5) \div 2

\* Iteration k (from 1) of the decode loop: int(cat_msg[i:i+2], 16), i = 3 + 2k.
DecodeByte(cat_msg, k) == PyInt(Slice(cat_msg, 3 + 2 * k, 5 + 2 * k), 16)

\* The decode loop of _handle_cat_dd; ok is FALSE when int() raised ValueError.
DecodeDD(cat_msg) ==
    [ok |-> \A k \in 1..DecodeCount(cat_msg) : DecodeByte(cat_msg, k).ok,
     data |-> SubSeq([k \in 1..DecodeCount(cat_msg) |->
                         Rescale(DecodeByte(cat_msg, k).val)],
                     1, DecodeCount(cat_msg))]

(***************************************************************************)
(* The lines the radio may deliver to the receive loop.                    *)
(***************************************************************************)
Rep(c, n) == [i \in 1..n |-> c]

F_1000000 == <<"0", "1", "0", "0", "0", "0", "0", "0">>
F_1002000 == <<"0", "1", "0", "0", "2", "0", "0", "0">>
F_ZERO == Rep("0", 8)
F_BAD == <<"0", "1", "0", "0", "2", "0", "0", "X">>

BSM(variant, lo, hi) == <<"B", "S", "M", variant>> \o lo \o hi \o <<";">>
BS(sub, d) == <<"B", "S", sub, d, ";">>
FR(d) == <<"F", "R", d, ";">>
\* An FA/FB report: 11 characters of carrier frequency and a terminator.
VFO(ab, f11) == <<"F", ab>> \o f11 \o <<";">>
OM(side, x) == <<"O", "M", side, x, ";">>
\* A spectrum line whose payload repeats one two-character byte.
DD(variant, c1, c2, npairs) ==
    <<"#", "#", "D", "D", variant>>
    \o [i \in 1..(2 * npairs) |-> IF i % 2 = 1 THEN c1 ELSE c2]
    \o <<";">>

C_1002500 == Rep("0", 4) \o <<"1", "0", "0", "2", "5", "0", "0">>
C_2500 == Rep("0", 7) \o <<"2", "5", "0", "0">>
C_BAD == Rep("0", 4) \o <<"1", "0", "0", "2", "5", "0", "X">>

\* Payload bytes of a full-length spectrum line.
NPAIRS == (DD_LEN - 6) \div 2

LINE_A == DD("2", "0", "0", NPAIRS)
LINE_B == DD("2", "8", "B", NPAIRS)
LINE_C == DD("2", "F", "F", NPAIRS)
LINE_DD_BADHEX == DD("2", "0", "G", NPAIRS)
LINE_DD_SHORT == DD("2", "0", "0", NPAIRS - 1)
LINE_DD_LONG == DD("2", "0", "0", NPAIRS + 1)
LINE_DD3 == DD("3", "0", "0", NPAIRS)

BsLines ==
    { BS("3", "0"), BS("3", "1"), BS("3", "2"), BS("3", "7"), BS("3", "X"),
      BS("4", "0"), BS("4", "X"), BS("O", "0"), BS("O", "1"),
      BSM("0", F_1000000, F_1002000), BSM("0", F_ZERO, F_1002000),
      BSM("0", F_1000000, F_BAD), BSM("0", F_BAD, F_1002000),
      BSM("1", F_1000000, F_1002000),
      BSM("0", F_1000000, SubSeq(F_1002000, 1, 7)),
      BSM("0", F_1000000, F_1002000 \o <<"0">>) }

VfoLines ==
    { FR("0"), FR("1"), FR("2"), FR("X"), <<"F", "R", "0", "0", ";">>,
      VFO("A", C_1002500), VFO("B", C_2500), VFO("A", C_BAD),
      VFO("A", Tail(C_1002500)), VFO("B", <<"0">> \o C_1002500),
      OM("0", "3"), OM("0", "G"), OM("1", "3"),
      <<"O", "M", "0", ";">>, <<"O", "M", "0", "3", "3", ";">>,
      <<"F", "R", ";">> }

DdLines ==
    { LINE_A, LINE_B, LINE_C, LINE_DD_BADHEX, LINE_DD_SHORT, LINE_DD_LONG, LINE_DD3 }

OtherLines ==
    { <<"C", "D", "2", "E", ";">>, <<"Z", "Z", "9", ";">>, <<"?", ";">> }

Lines == BsLines \cup VfoLines \cup DdLines \cup OtherLines

\* Spectrum lines whose payload is a ramp: byte k (from 1) of RampLine(o) is
\* (k - 1 + o) mod 256, written as two upper-case hex digits.
HexChar(n) == IF n < 10 THEN DecDigits[n + 1] ELSE HexUpper[n - 9]
RampByte(o, k) == (k - 1 + o) % 256
RampLine(o) ==
    [i \in 1..DD_LEN |->
        IF i <= 5 THEN <<"#", "#", "D", "D", "2">>[i]
        ELSE IF i = DD_LEN THEN ";"
        ELSE IF i % 2 = 0 THEN HexChar(RampByte(o, (i - 4) \div 2) \div 16)
        ELSE HexChar(RampByte(o, (i - 4) \div 2) % 16)]
RampLines == {RampLine(o) : o \in 0..MaxRamp}

\* The decode of every full-length line, computed once.
Decoded == [l \in {x \in Lines \cup RampLines : Len(x) = DD_LEN} |-> DecodeDD(l)]

\* Variant of the spectrum handler without the readiness test: an edge that
\* is not known is taken as 0.
_handle_cat_dd_Unguarded(t, q, cat_msg) ==
    IF Len(cat_msg) = DD_LEN /\ Slice(cat_msg, 0, 5) = <<"#", "#", "D", "D", "2">>
    THEN LET d == Decoded[cat_msg]
             lo == IF t.bs_lower_hz = None THEN 0 ELSE t.bs_lower_hz[1]
             hi == IF t.bs_upper_hz = None THEN 0 ELSE t.bs_upper_hz[1]
         IN  IF d.ok
             THEN LET sdata == [data |-> d.data, lower_hz |-> lo, upper_hz |-> hi]
                      q1 == IF full(q) THEN get_nowait(q) ELSE q
                  IN  Res(t, put_nowait(q1, sdata), << >>, "none")
             ELSE Res(t, q, << >>, "none")
    ELSE Res(t, q, << >>, "none")

_handle_cat_dd(t, q, cat_msg) ==
    IF Len(cat_msg) = DD_LEN /\ Slice(cat_msg, 0, 5) = <<"#", "#", "D", "D", "2">>
    THEN LET d == Decoded[cat_msg]
         IN  IF d.ok /\ has_all_required_info(t)
             THEN LET sdata == SpectrumData(t, d.data)
                      q1 == IF full(q) THEN get_nowait(q) ELSE q
                  IN  Res(t, put_nowait(q1, sdata), << >>, "none")
             ELSE Res(t, q, << >>, "none")
    ELSE Res(t, q, << >>, "none")

\* Variant of the FR handler without the length check.
_handle_cat_fr_AnyLength(t, q, cat_msg) ==
    LET v == PyInt(<<At(cat_msg, 2)>>, 10)
        t1 == IF v.ok THEN receiver_vfo_set(t, v.val) ELSE t
    IN  IF v.ok /\ is_centre_mode(t1)
        THEN IF vfo_a_active(t1) THEN Res(t1, q, <<CMD_FA>>, "none")
             ELSE IF vfo_b_active(t1) THEN Res(t1, q, <<CMD_FB>>, "none")
             ELSE Res(t1, q, << >>, "none")
        ELSE Res(t1, q, << >>, "none")

_handle_cat_fr(t, q, cat_msg) ==
    IF Len(cat_msg) = 4
    THEN LET v == PyInt(<<At(cat_msg, 2)>>, 10)
             t1 == IF v.ok THEN receiver_vfo_set(t, v.val) ELSE t
         IN  IF v.ok /\ is_centre_mode(t1)
             THEN IF vfo_a_active(t1) THEN Res(t1, q, <<CMD_FA>>, "none")
                  ELSE IF vfo_b_active(t1) THEN Res(t1, q, <<CMD_FB>>, "none")
                  ELSE Res(t1, q, << >>, "none")
             ELSE Res(t1, q, << >>, "none")
    ELSE Res(t, q, << >>, "none")

\* bs_span_hz/2 raises TypeError while the span is None; every span of the
\* table is even, so the float arithmetic and int() are exact.
_handle_cat_fa_fb(t, q, cat_msg) ==
    IF is_centre_mode(t) /\ Len(cat_msg) = 14
    THEN LET f == PyInt(Slice(cat_msg, 2, 13), 10)
         IN  IF ~f.ok THEN Res(t, q, << >>, "none")
             ELSE IF t.bs_span_hz = None THEN Res(t, q, << >>, "TypeError")
             ELSE Res([t EXCEPT
                          !.bs_lower_hz = Some(f.val - (t.bs_span_hz[1] \div 2)),
                          !.bs_upper_hz = Some(f.val + (t.bs_span_hz[1] \div 2))],
                      q, << >>, "none")
    ELSE Res(t, q, << >>, "none")

_handle_cat_om(t, q, cat_msg) ==
    IF Len(cat_msg) = 5 /\ At(cat_msg, 2) = "0"
    THEN LET m == PyInt(<<At(cat_msg, 3)>>, 16)
         IN  Res(IF m.ok THEN operating_mode_set(t, m.val) ELSE t, q, << >>, "none")
    ELSE Res(t, q, << >>, "none")

\* The decoded text goes to standard output, which is not part of the state.
_handle_cat_cd2(t, q, cat_msg) == Res(t, q, << >>, "none")

_handle_info(t, q, cat_msg) ==
    IF Len(cat_msg) > 2
    THEN LET c2 == Slice(cat_msg, 0, 2)
             cmd == IF c2 = <<"#", "#">> THEN Slice(cat_msg, 0, 4) ELSE c2
         IN  IF cmd = <<"B", "S">> THEN _handle_cat_bs(t, q, cat_msg)
             ELSE IF cmd = <<"F", "R">> THEN _handle_cat_fr(t, q, cat_msg)
             ELSE IF cmd \in {<<"F", "A">>, <<"F", "B">>}
                  THEN _handle_cat_fa_fb(t, q, cat_msg)
             ELSE IF cmd = <<"#", "#", "D", "D">> THEN _handle_cat_dd(t, q, cat_msg)
             ELSE IF cmd = <<"O", "M">> THEN _handle_cat_om(t, q, cat_msg)
             ELSE IF cmd = <<"C", "D">> THEN _handle_cat_cd2(t, q, cat_msg)
             ELSE Res(t, q, << >>, "none")
    ELSE Res(t, q, << >>, "none")

(***************************************************************************)
(* The N1MM document of one sample.                                        *)
(***************************************************************************)
RECURSIVE NatStr(_)
\* str(n) for n >= 0.
NatStr(n) == IF n < 10 THEN <<DecDigits[n + 1]>>
             ELSE NatStr(n \div 10) \o <<DecDigits[(n % 10) + 1]>>

IntStr(n) == IF n < 0 THEN <<"-">> \o NatStr(0 - n) ELSE NatStr(n)

\* str(hz/1000): the shortest decimal of the float quotient, which for an
\* integer number of Hz below 2^31 is the exact quotient with its trailing
\* zeros removed and at least one digit after the point.
KhzStr(hz) ==
    LET a == IF hz < 0 THEN 0 - hz ELSE hz
        m == a % 1000
        frac == IF m = 0 THEN <<"0">>
                ELSE IF m % 100 = 0 THEN NatStr(m \div 100)
                ELSE IF m % 10 = 0
                     THEN <<DecDigits[(m \div 100) + 1], DecDigits[((m \div 10) % 10) + 1]>>
                ELSE <<DecDigits[(m \div 100) + 1], DecDigits[((m \div 10) % 10) + 1],
                       DecDigits[(m % 10) + 1]>>
    IN  (IF hz < 0 THEN <<"-">> ELSE << >>) \o NatStr(a \div 1000) \o <<".">> \o frac

\* The Spectrum element built by send_to_n1mm; SpectrumData is kept as the
\* list of values that ','.join writes in order.
Document(sdata) ==
    [LowScopeFrequency |-> KhzStr(sdata.lower_hz),
     HighScopeFrequency |-> KhzStr(sdata.upper_hz),
     DataCount |-> NatStr(Len(sdata.data)),
     SpectrumData |-> sdata.data]

(***************************************************************************)
(* State.                                                                  *)
(***************************************************************************)
VARIABLES
    ts890,          \* the Ts890 status object
    queue,          \* spectrum_queue
    pc,             \* position of fetch_from_ts890
    exc,            \* the exception fetch_from_ts890 ends with
    writer,         \* "none", "open" or "closed"
    resp,           \* local of fetch_from_ts890: the last handshake reply
    out,            \* commands written while the transport is open
    late,           \* commands passed to writer.write() after writer.close()
    rx_pc,          \* position of _do_cat_rx
    rx_exc,         \* the exception that ended _do_cat_rx
    bandscope_on,   \* local of _do_cat_rx
    nrx,            \* lines read by _do_cat_rx
    hb_pc,          \* position of _do_heartbeat
    beats,          \* heartbeat commands written
    pub_pc,         \* position of send_to_n1mm
    published       \* datagrams sent to N1MM, in order

vars == <<ts890, queue, pc, exc, writer, resp, out, late, rx_pc, rx_exc, bandscope_on,
          nrx, hb_pc, beats, pub_pc, published>>

radio_vars == <<ts890, queue>>
fetch_vars == <<pc, exc, writer, resp>>
rx_vars == <<rx_pc, rx_exc, bandscope_on, nrx>>
hb_vars == <<hb_pc, beats>>
pub_vars == <<pub_pc, published>>

\* Replies the radio may give during the handshake.
REPLY_CN1 == <<"#", "#", "C", "N", "1", ";">>
REPLY_CN0 == <<"#", "#", "C", "N", "0", ";">>
REPLY_ID1 == <<"#", "#", "I", "D", "1", ";">>
REPLY_ID0 == <<"#", "#", "I", "D", "0", ";">>
Replies == {REPLY_CN1, REPLY_CN0, REPLY_ID1, REPLY_ID0, <<"?", ";">>}

Init ==
    /\ ts890 = Ts890Init(TRUE, 0, FALSE)
    /\ queue = Queue
    /\ pc = "start"
    /\ exc = "none"
    /\ writer = "none"
    /\ resp = None
    /\ out = << >>
    /\ late = << >>
    /\ rx_pc = "idle"
    /\ rx_exc = "none"
    /\ bandscope_on = FALSE
    /\ nrx = 0
    /\ hb_pc = "idle"
    /\ beats = 0
    /\ pub_pc = "run"
    /\ published = << >>

(***************************************************************************)
(* fetch_from_ts890: connect, handshake, run both duties, close.           *)
(***************************************************************************)
\* Variant of the finally block that leaves the writer as it is.
writer_close_Skipped(w) == w

\* writer.close() of the finally block.
writer_close(w) == "closed"

\* The initial poll burst sent once the login is accepted.
PollBurst == <<CMD_AI2, CMD_BS3, CMD_BS4, CMD_BSM0, CMD_BSO, CMD_FR, CMD_OM0>>

\* An exception leaves the inner try block: the finally block closes the
\* writer and waits for the close before the exception goes any further.
Finally(e) ==
    /\ writer' = writer_close(writer)
    /\ exc' = e
    /\ pc' = "wait_closed"

\* open_connection succeeds and ##CN; is written.
OpenConnection ==
    /\ pc = "start"
    /\ writer' = "open"
    /\ out' = _send_cmd(out, CMD_CN)
    /\ pc' = "cn"
    /\ UNCHANGED <<radio_vars, exc, resp, late, rx_vars, hb_vars, pub_vars>>

\* open_connection times out or fails: no transport was opened.
OpenFails ==
    /\ pc = "start"
    /\ \E e \in {"timeout connecting to", "connecting to TS-890"} : exc' = e
    /\ pc' = "failed"
    /\ UNCHANGED <<radio_vars, writer, resp, out, late, rx_vars, hb_vars, pub_vars>>

\* Variant of the connect step that sends the login whatever the reply.
ConnectAck_AnyReply(reply) ==
    /\ pc = "cn"
    /\ resp' = reply
    /\ out' = Append(out, cat_id(ts890))
    /\ pc' = "id"
    /\ UNCHANGED <<exc, writer>>
    /\ UNCHANGED <<radio_vars, late, rx_vars, hb_vars, pub_vars>>

\* The reply to ##CN; is read.
ConnectAck(reply) ==
    /\ pc = "cn"
    /\ resp' = reply
    /\ IF reply = REPLY_CN1
       THEN /\ out' = _send_cmd(out, cat_id(ts890))
            /\ pc' = "id"
            /\ UNCHANGED <<exc, writer>>
       ELSE /\ Finally("connection refused")
            /\ UNCHANGED out
    /\ UNCHANGED <<radio_vars, late, rx_vars, hb_vars, pub_vars>>

\* The reply to the login is read; on success the poll burst is written and
\* gather starts _do_cat_rx and _do_heartbeat.
LoginAck(reply) ==
    /\ pc = "id"
    /\ resp' = reply
    /\ IF reply = REPLY_ID1
       THEN /\ out' = SendAll(out, PollBurst)
            /\ pc' = "active"
            /\ rx_pc' = "read"
            /\ hb_pc' = "run"
            /\ UNCHANGED <<exc, writer>>
       ELSE /\ Finally("login failure")
            /\ UNCHANGED <<out, rx_pc, hb_pc>>
    /\ UNCHANGED <<radio_vars, late, rx_exc, bandscope_on, nrx, beats, pub_vars>>

\* readuntil raises IncompleteReadError in _send_cmd_wait_response.
HandshakeReadFails ==
    /\ pc \in {"cn", "id"}
    /\ Finally("reading CAT response")
    /\ UNCHANGED <<radio_vars, resp, out, late, rx_vars, hb_vars, pub_vars>>

\* gather re-raises the exception of the duty that failed; it does not cancel
\* the other duty.
GatherFails ==
    /\ pc = "active"
    /\ rx_pc = "raised"
    /\ Finally(rx_exc)
    /\ UNCHANGED <<radio_vars, resp, out, late, rx_vars, hb_vars, pub_vars>>

\* wait_closed returns and the exception reaches the caller, main.
Propagate ==
    /\ pc = "wait_closed"
    /\ pc' = "failed"
    /\ UNCHANGED <<radio_vars, exc, writer, resp, out, late, rx_vars, hb_vars,
                   pub_vars>>

\* main ends with the exception and asyncio.run cancels the tasks left.
Teardown ==
    /\ pc = "failed"
    /\ pc' = "exited"
    /\ hb_pc' = IF hb_pc = "run" THEN "cancelled" ELSE hb_pc
    /\ pub_pc' = "cancelled"
    /\ UNCHANGED <<radio_vars, exc, writer, resp, out, late, rx_vars, beats,
                   published>>

(***************************************************************************)
(* _do_cat_rx: the receive-and-dispatch loop.                              *)
(***************************************************************************)
\* The command the readiness re-evaluation writes, if any.
ReadinessCmd(t, on) ==
    IF has_all_required_info(t)
    THEN IF ~on THEN <<CMD_DD02>> ELSE << >>
    ELSE IF on THEN <<CMD_DD00>> ELSE << >>

\* bandscope_on after the readiness re-evaluation.
ReadinessOn(t, on) ==
    IF has_all_required_info(t) THEN TRUE
    ELSE IF on THEN FALSE ELSE on

\* One line is read and handled.  A handler that wrote a command awaited
\* drain(), so the readiness re-evaluation is a later step (RxEvaluate);
\* otherwise nothing is awaited in between and it belongs to this step.
RxHandle(line) ==
    /\ pc = "active"
    /\ rx_pc = "read"
    /\ \E r \in {_handle_info(ts890, queue, line)} :
           /\ ts890' = r.t
           /\ queue' = r.q
           /\ nrx' = nrx + 1
           /\ IF r.exc # "none"
              THEN /\ rx_pc' = "raised"
                   /\ rx_exc' = r.exc
                   /\ out' = SendAll(out, r.sent)
                   /\ UNCHANGED bandscope_on
              ELSE IF r.sent # << >>
              THEN /\ rx_pc' = "evaluate"
                   /\ out' = SendAll(out, r.sent)
                   /\ UNCHANGED <<rx_exc, bandscope_on>>
              ELSE /\ rx_pc' = "read"
                   /\ out' = SendAll(out, ReadinessCmd(r.t, bandscope_on))
                   /\ bandscope_on' = ReadinessOn(r.t, bandscope_on)
                   /\ UNCHANGED rx_exc
    /\ UNCHANGED <<fetch_vars, late, hb_vars, pub_vars>>

\* The feed is cut off after MaxRx lines.
RxLine(line) ==
    /\ nrx < MaxRx
    /\ RxHandle(line)

\* The readiness re-evaluation after a handler that wrote a command.
RxEvaluate ==
    /\ rx_pc = "evaluate"
    /\ out' = SendAll(out, ReadinessCmd(ts890, bandscope_on))
    /\ bandscope_on' = ReadinessOn(ts890, bandscope_on)
    /\ rx_pc' = "read"
    /\ UNCHANGED <<radio_vars, fetch_vars, late, rx_exc, nrx, hb_vars, pub_vars>>

\* readuntil raises IncompleteReadError: the stream ended.
RxReadFails ==
    /\ pc = "active"
    /\ rx_pc = "read"
    /\ rx_pc' = "raised"
    /\ rx_exc' = "reading CAT from TS-890"
    /\ UNCHANGED <<radio_vars, fetch_vars, out, late, bandscope_on, nrx,
                   hb_vars, pub_vars>>

(***************************************************************************)
(* _do_heartbeat.                                                          *)
(***************************************************************************)
\* The 5 second sleep ends and BS3; is written.  After writer.close() the
\* write is still made; drain() then either raises ConnectionResetError or
\* returns, depending on whether connection_lost has run.
Heartbeat ==
    /\ hb_pc = "run"
    /\ beats < MaxBeats
    /\ beats' = beats + 1
    /\ IF writer = "open"
       THEN /\ out' = _send_cmd(out, CMD_BS3)
            /\ UNCHANGED <<late, hb_pc>>
       ELSE /\ late' = _send_cmd(late, CMD_BS3)
            /\ \E p \in {"run", "raised"} : hb_pc' = p
            /\ UNCHANGED out
    /\ UNCHANGED <<radio_vars, fetch_vars, rx_vars, pub_vars>>

(***************************************************************************)
(* send_to_n1mm: the publisher.                                            *)
(***************************************************************************)
\* Variant of the publisher that takes the newest sample of the queue.
Publish_TakesNewest ==
    /\ pub_pc = "run"
    /\ queue.items # << >>
    /\ published' = Append(published, Document(queue.items[Len(queue.items)]))
    /\ queue' = task_done([queue EXCEPT
                              !.items = SubSeq(@, 1, Len(@) - 1)])
    /\ UNCHANGED <<ts890, fetch_vars, out, late, rx_vars, hb_vars, pub_pc>>

\* Variant of the publisher without the except clause: the TypeError of the
\* await ends the loop before task_done.
Publish_Uncaught ==
    /\ pub_pc = "run"
    /\ queue.items # << >>
    /\ published' = Append(published, Document(Head(queue.items)))
    /\ queue' = get_nowait(queue)
    /\ pub_pc' = "raised"
    /\ UNCHANGED <<ts890, fetch_vars, out, late, rx_vars, hb_vars>>

\* One iteration: queue.get(), build the document, sendto, task_done.  The
\* await of sendto's None raises TypeError after the datagram was handed to
\* the transport; the except clause swallows it.
Publish ==
    /\ pub_pc = "run"
    /\ queue.items # << >>
    /\ published' = Append(published, Document(Head(queue.items)))
    /\ queue' = task_done(get_nowait(queue))
    /\ UNCHANGED <<ts890, fetch_vars, out, late, rx_vars, hb_vars, pub_pc>>

Next ==
    \/ OpenConnection
    \/ OpenFails
    \/ \E reply \in Replies : ConnectAck(reply)
    \/ \E reply \in Replies : LoginAck(reply)
    \/ HandshakeReadFails
    \/ GatherFails
    \/ Propagate
    \/ Teardown
    \/ \E line \in Lines : RxLine(line)
    \/ RxEvaluate
    \/ RxReadFails
    \/ Heartbeat
    \/ Publish

Spec == Init /\ [][Next]_vars

(***************************************************************************)
(* Vocabulary of the properties.                                           *)
(***************************************************************************)
EdgesKnown(t) == t.bs_lower_hz # None /\ t.bs_upper_hz # None
Edges(t) == <<t.bs_lower_hz, t.bs_upper_hz>>

\* The DD commands among a sequence of commands, in order.
IsDD(c) == c \in {CMD_DD02, CMD_DD00}
DDs(cmds) == SelectSeq(cmds, IsDD)
\* The commands a step appends to the outbound stream.
Written == SubSeq(out', Len(out) + 1, Len(out'))

\* The tag under which _handle_info and _handle_cat_bs file a line.
Tag(l) ==
    IF Len(l) >= 4 /\ Slice(l, 0, 2) = <<"#", "#">> THEN Slice(l, 0, 4)
    ELSE IF Len(l) >= 3 /\ Slice(l, 0, 2) = <<"B", "S">> THEN Slice(l, 0, 3)
    ELSE Slice(l, 0, 2)

\* C1: readiness is true exactly when both edges are known, whatever values
\* the edges hold.
C1_ReadyIffEdgesKnown == has_all_required_info(ts890) <=> EdgesKnown(ts890)

\* C2: the DD commands of the outbound stream alternate DD02;, DD00;, ...
\* starting with DD02;.
C2_Alternate ==
    \A i \in 1..Len(DDs(out)) :
        DDs(out)[i] = IF i % 2 = 1 THEN CMD_DD02 ELSE CMD_DD00

\* C2, with "ready" read as the value has_all_required_info returns: a step
\* writes at most one DD command; DD02; only when the state is ready after
\* the line and streaming was off, DD00; only when it is not ready and
\* streaming was on; and the step that ends the handling of a line writes
\* none when readiness is what it was before the line.
C2_Step ==
    /\ Len(DDs(Written)) <= 1
    /\ DDs(Written) = <<CMD_DD02>> =>
           has_all_required_info(ts890') /\ ~bandscope_on /\ bandscope_on'
    /\ DDs(Written) = <<CMD_DD00>> =>
           ~has_all_required_info(ts890') /\ bandscope_on /\ ~bandscope_on'
    /\ (rx_pc' = "read" /\ has_all_required_info(ts890') = bandscope_on) =>
           DDs(Written) = << >>

\* C2, with "ready" read as the value has_all_required_info returns: stream
\* enable/disable is edge-triggered.  Between two lines the flag bandscope_on
\* is the value the last line left.
C2_EdgeTriggeredOnReturnValue ==
    /\ [](rx_pc = "read" => bandscope_on = has_all_required_info(ts890))
    /\ []C2_Alternate
    /\ [][C2_Step]_vars

C2_Witness ==
    /\ Len(DDs(out)) >= 3
    /\ SubSeq(DDs(out), 1, 3) = <<CMD_DD02, CMD_DD00, CMD_DD02>>

\* "Ready to stream" as both edges known, and what a step does about it.
C2_StepOnEdgesKnown ==
    /\ Len(DDs(Written)) <= 1
    /\ DDs(Written) = <<CMD_DD02>> =>
           EdgesKnown(ts890') /\ ~bandscope_on /\ bandscope_on'
    /\ DDs(Written) = <<CMD_DD00>> =>
           ~EdgesKnown(ts890') /\ bandscope_on /\ ~bandscope_on'
    /\ (rx_pc' = "read" /\ EdgesKnown(ts890') = bandscope_on) =>
           DDs(Written) = << >>

\* C2: stream enable/disable is edge-triggered on readiness (both edges
\* known): the DD commands alternate DD02;, DD00;, ... starting with DD02;;
\* DD02; is written only after a line that leaves the state ready while
\* streaming is off, DD00; only after a line that leaves it not ready while
\* streaming is on, and none after a line that leaves readiness unchanged.
C2_EdgeTriggered ==
    /\ []C2_Alternate
    /\ [][C2_StepOnEdgesKnown]_vars

\* The sample a full-length, decodable ##DD2 line makes in status t.
SampleOf(t, l) == SpectrumData(t, Decoded[l].data)
WellFormedDD(l) ==
    Len(l) = DD_LEN /\ Slice(l, 0, 5) = <<"#", "#", "D", "D", "2">> /\ Decoded[l].ok

WellFormedDDLines == {l \in Lines : WellFormedDD(l)}

\* Handling a well-formed spectrum line while ready admits the sample at the
\* tail; when the queue was full exactly the oldest sample is removed.
C3_Admit ==
    \A l \in WellFormedDDLines :
        (has_all_required_info(ts890) /\ RxLine(l)) =>
            /\ queue'.items =
                   Append(IF Len(queue.items) = MAX_QUEUE_DEPTH
                          THEN Tail(queue.items) ELSE queue.items,
                          SampleOf(ts890, l))
            /\ queue'.unfinished_tasks = queue.unfinished_tasks + 1

\* C3: the queue never holds more than MAX_QUEUE_DEPTH samples; a new sample
\* is always admitted (the producer never blocks and never drops the newest),
\* and when the queue is full the oldest sample makes room for it.
C3_DropOldest ==
    /\ [](Len(queue.items) <= MAX_QUEUE_DEPTH)
    /\ [][C3_Admit]_vars

\* Three samples admitted, none taken by the publisher: B and C are left.
C3_Witness ==
    /\ queue.unfinished_tasks = 3
    /\ published = << >>
    /\ queue.items = <<SampleOf(ts890, LINE_B), SampleOf(ts890, LINE_C)>>

\* C4: only a read failure ends the receive loop.
C4_OnlyReadFailureEndsLoop ==
    rx_pc = "raised" => rx_exc = "reading CAT from TS-890"

\* A line with a numeric field, as its tag and length define it, that int()
\* rejects.
Unparsable(l) ==
    \/ /\ Tag(l) = <<"B", "S", "M">> /\ Len(l) = 21 /\ At(l, 3) = "0"
       /\ ~(PyInt(Slice(l, 4, 12), 10).ok /\ PyInt(Slice(l, 12, 20), 10).ok)
    \/ /\ Tag(l) \in {<<"B", "S", "3">>, <<"B", "S", "4">>, <<"B", "S", "O">>}
       /\ Len(l) > 4
       /\ ~PyInt(<<At(l, 3)>>, 10).ok
    \/ /\ Tag(l) = <<"F", "R">> /\ Len(l) = 4
       /\ ~PyInt(<<At(l, 2)>>, 10).ok
    \/ /\ Tag(l) \in {<<"F", "A">>, <<"F", "B">>} /\ Len(l) = 14
       /\ ~PyInt(Slice(l, 2, 13), 10).ok
    \/ /\ Tag(l) = <<"O", "M">> /\ Len(l) = 5 /\ At(l, 2) = "0"
       /\ ~PyInt(<<At(l, 3)>>, 16).ok
    \/ /\ Tag(l) = <<"#", "#", "D", "D">> /\ Len(l) = DD_LEN
       /\ ~Decoded[l].ok

UnparsableLines == {l \in Lines : Unparsable(l)}

\* C5: a line with an unparsable numeric field leaves the status object
\* entirely unchanged.
C5_UnparsableIgnored ==
    [][\A l \in UnparsableLines : RxLine(l) => ts890' = ts890]_vars

\* A line whose length is not the fixed length of its tag.
WrongLength(l) ==
    \/ Tag(l) = <<"B", "S", "M">> /\ Len(l) # 21
    \/ Tag(l) = <<"F", "R">> /\ Len(l) # 4
    \/ Tag(l) \in {<<"F", "A">>, <<"F", "B">>} /\ Len(l) # 14
    \/ Tag(l) = <<"O", "M">> /\ Len(l) # 5
    \/ Tag(l) = <<"#", "#", "D", "D">> /\ Len(l) # DD_LEN

WrongLengthLines == {l \in Lines : WrongLength(l)}

\* C6: a line of the wrong length for its tag is dropped: the status object
\* and the queue are what they were, and no command is written.
C6_WrongLengthDropped ==
    [][\A l \in WrongLengthLines :
           RxLine(l) => ts890' = ts890 /\ queue' = queue /\ out' = out]_vars

\* Ready and streaming, with a sample waiting: a spectrum line one pair short
\* is read and handled, and a full-length one would have been admitted.
C6_Witness ==
    /\ has_all_required_info(ts890)
    /\ bandscope_on
    /\ Len(queue.items) = 1
    /\ ENABLED (RxLine(LINE_DD_SHORT) /\ nrx' = nrx + 1 /\ queue' = queue)
    /\ ENABLED (RxLine(LINE_A) /\ Len(queue'.items) = 2)

\* A bandscope-mode report the BS3 handler decodes, and the mode it carries.
IsModeReport(l) ==
    Tag(l) = <<"B", "S", "3">> /\ Len(l) > 4 /\ PyInt(<<At(l, 3)>>, 10).ok
ModeOf(l) == PyInt(<<At(l, 3)>>, 10).val

ModeReports == {l \in Lines : IsModeReport(l)}

C7_ModeSwitch ==
    \A l \in ModeReports :
        RxLine(l) =>
            /\ (ModeOf(l) = 0 /\ ~is_centre_mode(ts890)) =>
                   /\ is_centre_mode(ts890')
                   /\ Edges(ts890') = <<None, None>>
                   /\ ~has_all_required_info(ts890')
            /\ ModeOf(l) \in {1, 2} =>
                   /\ ts890'.bs_mode = Some(ModeOf(l))
                   /\ Edges(ts890') = Edges(ts890)

\* C7: a mode report that switches the mode to Centre leaves both edges
\* unknown and the state not ready; a report of Fixed or AutoScroll leaves
\* both edges as they were.
C7_CentreResetsEdges == [][C7_ModeSwitch]_vars

\* Streaming was enabled with known edges, then the mode became Centre: the
\* edges are unknown and the stream was disabled again.
C7_Witness ==
    /\ is_centre_mode(ts890)
    /\ Edges(ts890) = <<None, None>>
    /\ DDs(out) = <<CMD_DD02, CMD_DD00>>

\* C7 (second half): the mode became Fixed with both edges known and kept.
C7_WitnessFixed ==
    /\ ts890.bs_mode = Some(1)
    /\ EdgesKnown(ts890)
    /\ ENABLED (RxLine(BS("3", "2")) /\ ts890'.bs_mode = Some(2)
                /\ Edges(ts890') = Edges(ts890))

Handshake == <<CMD_CN, cat_id(ts890)>>
Has(cmds, c) == \E i \in 1..Len(cmds) : cmds[i] = c

\* C8: what the outbound stream holds at each position of the session.
C8_Stream ==
    /\ out # << >> => out[1] = CMD_CN
    /\ pc = "start" => out = << >>
    /\ pc = "cn" => out = <<CMD_CN>>
    /\ pc = "id" => resp = REPLY_CN1 /\ out = Handshake
    /\ (pc = "active" \/ nrx > 0 \/ Has(out, CMD_DD02) \/ Has(out, CMD_AI2)) =>
           /\ resp = REPLY_ID1
           /\ Len(out) >= 9
           /\ SubSeq(out, 1, 9) = Handshake \o <<CMD_AI2>> \o
                  <<CMD_BS3, CMD_BS4, CMD_BSM0, CMD_BSO, CMD_FR, CMD_OM0>>
    /\ exc = "connection refused" =>
           resp # REPLY_CN1 /\ out = <<CMD_CN>> /\ late = << >>
    /\ exc = "login failure" =>
           resp # REPLY_ID1 /\ out = Handshake /\ late = << >>

\* C8: the step that writes the login read '##CN1;'; the step that writes
\* AI2; read '##ID1;', writes the whole poll burst, and no line was
\* dispatched and no DD02; sent before it; a step that reads any other reply
\* writes nothing and fails the session.
C8_Step ==
    /\ Has(Written, cat_id(ts890)) => pc = "cn" /\ resp' = REPLY_CN1
    /\ Has(Written, CMD_AI2) =>
           /\ pc = "id" /\ resp' = REPLY_ID1
           /\ Written = PollBurst
           /\ nrx = 0 /\ ~Has(out, CMD_DD02)
    /\ (pc = "cn" /\ resp' # resp /\ resp' # REPLY_CN1) =>
           Written = << >> /\ exc' = "connection refused" /\ pc' = "wait_closed"
    /\ (pc = "id" /\ resp' # resp /\ resp' # REPLY_ID1) =>
           Written = << >> /\ exc' = "login failure" /\ pc' = "wait_closed"
    /\ pc \in {"wait_closed", "failed", "exited"} => out' = out

\* C8: the outbound command stream is gated by the handshake.
C8_HandshakeGates == []C8_Stream /\ [][C8_Step]_vars

C8_Witness ==
    /\ pc = "active" /\ nrx > 0 /\ Has(out, CMD_DD02)
    /\ resp = REPLY_ID1

\* C8 (failure half): the login was refused after an accepted connect.
C8_WitnessRefused ==
    /\ exc = "login failure"
    /\ pc = "failed"
    /\ out = Handshake

\* C9: once the transport was opened, the session has ended only with the
\* transport closed, and the step that hands the failure to the caller finds
\* it closed.
C9_ClosedBeforePropagate ==
    /\ []((pc \in {"failed", "exited"} /\ out # << >>) => writer = "closed")
    /\ []((pc \in {"failed", "exited"} /\ out = << >>) => writer = "none")
    /\ [][(pc' = "failed" /\ pc # "failed" /\ out # << >>) =>
              writer = "closed" /\ pc = "wait_closed"]_vars

\* The session ended on a read failure in Active, the transport closed.
C9_Witness ==
    /\ pc = "failed"
    /\ exc = "reading CAT from TS-890"
    /\ writer = "closed"
    /\ nrx > 0

\* C10: no command is passed to the writer once it was closed.
C10_NothingWrittenAfterClose == late = << >>

\* One whole command: text that ends with the terminator ';' and holds no
\* other ';'.
IsWholeCommand(c) ==
    /\ Len(c) >= 2
    /\ c[Len(c)] = ";"
    /\ \A j \in 1..(Len(c) - 1) : c[j] # ";"

\* The commands the two Active duties and the handshake send, the login apart.
Commands ==
    {CMD_CN, CMD_AI2, CMD_BS3, CMD_BS4, CMD_BSM0, CMD_BSO, CMD_FR, CMD_FA,
     CMD_FB, CMD_OM0, CMD_DD02, CMD_DD00}

\* C11: under every interleaving of the receive loop and the heartbeat the
\* outbound byte stream is a concatenation of whole commands: every write()
\* call carries exactly one whole command of the program, so no command's
\* bytes lie between the bytes of another.
C11_WholeCommands ==
    \A i \in 1..Len(out) :
        /\ IsWholeCommand(out[i])
        /\ out[i] \in Commands \/ out[i] = cat_id(ts890)

\* The heartbeat wrote BS3; between the FR; a mode report triggered and the
\* DD00; of the readiness re-evaluation that followed it.
C11_Witness ==
    \E i \in 10..Len(out) :
        /\ i + 2 <= Len(out)
        /\ out[i] = CMD_FR /\ out[i + 1] = CMD_BS3 /\ out[i + 2] = CMD_DD00

\* What one step does to the queue: the publisher takes the oldest sample
\* and removes it in the same step; the producer appends at the tail, after
\* removing the oldest when the queue was full, and a sample removed that way
\* is not published by that step; nothing else touches the queue.
C12_Step ==
    /\ published' # published =>
           /\ queue.items # << >>
           /\ published' = Append(published, Document(Head(queue.items)))
           /\ queue'.items = Tail(queue.items)
           /\ queue'.unfinished_tasks = queue.unfinished_tasks - 1
    /\ (queue' # queue /\ published' = published) =>
           /\ queue'.unfinished_tasks = queue.unfinished_tasks + 1
           /\ queue'.items # << >>
           /\ SubSeq(queue'.items, 1, Len(queue'.items) - 1) =
                  IF Len(queue.items) = MAX_QUEUE_DEPTH
                  THEN Tail(queue.items) ELSE queue.items

\* C12: the publisher takes samples in the order the producer admitted them
\* and each at most once: every sample admitted is still queued, was taken by
\* the publisher, or was removed by a drop-oldest purge, and the three counts
\* add up to the number admitted.
C12_FifoOnce ==
    /\ [](queue.unfinished_tasks >= Len(queue.items))
    /\ [][C12_Step]_vars

\* A, B, C admitted with no draining (A purged), then B taken: C is left.
C12_Witness ==
    /\ queue.unfinished_tasks = 2
    /\ Len(queue.items) = 1
    /\ Len(published) = 1
    /\ EdgesKnown(ts890)
    /\ published = <<Document(SampleOf(ts890, LINE_B))>>
    /\ queue.items = <<SampleOf(ts890, LINE_C)>>

(***************************************************************************)
(* SpecDecode: the spectrum decode on its own.  The session is Active in   *)
(* Fixed mode with edges (1000000, 1002000) learned and streaming enabled; *)
(* one ramp line is read and handled, and the publisher takes the sample.  *)
(***************************************************************************)
\* The status object after 'BS31;' and 'BSM00100000001002000;'.
ReadyFixed(is_admin, freq_offset, cw_decoder) ==
    _handle_info(
        _handle_info(Ts890Init(is_admin, freq_offset, cw_decoder), Queue,
                     BS("3", "1")).t,
        Queue, BSM("0", F_1000000, F_1002000)).t

FreqOffsets == {0 - 500, 0, 500}

InitDecode ==
    /\ ts890 \in {ReadyFixed(a, f, c) : a \in BOOLEAN, f \in FreqOffsets, c \in BOOLEAN}
    /\ queue = Queue
    /\ pc = "active"
    /\ exc = "none"
    /\ writer = "open"
    /\ resp = REPLY_ID1
    /\ out = SendAll(<<CMD_CN, cat_id(ts890)>>, PollBurst \o <<CMD_DD02>>)
    /\ late = << >>
    /\ rx_pc = "read"
    /\ rx_exc = "none"
    /\ bandscope_on = TRUE
    /\ nrx = 2
    /\ hb_pc = "run"
    /\ beats = 0
    /\ pub_pc = "run"
    /\ published = << >>

\* One ramp line is read while nothing is queued or published yet.
RxRamp(o) ==
    /\ queue.items = << >>
    /\ published = << >>
    /\ RxLine(RampLine(o))

NextDecode ==
    \/ \E o \in 0..MaxRamp : RxRamp(o)
    \/ Publish

SpecDecode == InitDecode /\ [][NextDecode]_vars

\* The power the byte value v decodes to.
Power(v) == IF v < 140 THEN 140 - v ELSE 0

C13_Decoded(o) ==
    /\ Len(queue'.items) = 1
    /\ Len(queue'.items[1].data) = 640
    /\ \A k \in 1..640 :
           /\ queue'.items[1].data[k] = Power(RampByte(o, k))
           /\ queue'.items[1].data[k] \in 0..140

\* C13: every payload byte value v in 0..255 decodes to 140 - v when v < 140
\* and to 0 otherwise (0 -> 140, 139 -> 1, 140 -> 0, 255 -> 0), every decoded
\* value lies in 0..140, and a line of length 1286 yields exactly 640 values
\* in payload order.
C13_ByteRescale ==
    /\ Power(0) = 140 /\ Power(139) = 1 /\ Power(140) = 0 /\ Power(255) = 0
    /\ {RampByte(0, k) : k \in 1..640} = 0..255
    /\ [][\A o \in 0..MaxRamp : RxRamp(o) => C13_Decoded(o)]_vars

\* The ramp that starts at byte 0 was decoded: 140, 139, ... 1, 0, ..., 0 and
\* 140 again at byte 0 of the next round.
C13_Witness ==
    /\ Len(queue.items) = 1
    /\ Len(queue.items[1].data) = 640
    /\ queue.items[1].data[1] = 140
    /\ queue.items[1].data[140] = 1
    /\ queue.items[1].data[141] = 0
    /\ queue.items[1].data[256] = 0
    /\ queue.items[1].data[257] = 140

(***************************************************************************)
(* SpecSpan: span, expanded flag and the edges of a sample.  The session   *)
(* is Active with edges (1000000, 1002000) learned from one bulk-edges     *)
(* line; span reports of every index, expanded-flag reports and a spectrum *)
(* line follow.                                                            *)
(***************************************************************************)
\* The status object after 'BSM00100000001002000;' alone.
ReadyFromBulk(freq_offset) ==
    _handle_info(Ts890Init(TRUE, freq_offset, FALSE), Queue,
                 BSM("0", F_1000000, F_1002000)).t

InitSpan ==
    /\ ts890 \in {ReadyFromBulk(f) : f \in FreqOffsets}
    /\ queue = Queue
    /\ pc = "active"
    /\ exc = "none"
    /\ writer = "open"
    /\ resp = REPLY_ID1
    /\ out = SendAll(<<CMD_CN, cat_id(ts890)>>, PollBurst \o <<CMD_DD02>>)
    /\ late = << >>
    /\ rx_pc = "read"
    /\ rx_exc = "none"
    /\ bandscope_on = TRUE
    /\ nrx = 1
    /\ hb_pc = "run"
    /\ beats = 0
    /\ pub_pc = "run"
    /\ published = << >>

\* A span report 'BS4i;', i = 0..9 (8 and 9 are not span indices).
RxSpan(i) == RxLine(BS("4", DecDigits[i + 1]))
\* An expanded-flag report 'BSO0;' or 'BSO1;'.
RxExpanded(e) == RxLine(BS("O", DecDigits[e + 1]))
\* A spectrum line, read while nothing is queued.
RxSample == queue.items = << >> /\ RxLine(LINE_A)

NextSpan ==
    \/ \E i \in 0..9 : RxSpan(i)
    \/ \E e \in 0..1 : RxExpanded(e)
    \/ RxSample
    \/ Publish

SpecSpan == InitSpan /\ [][NextSpan]_vars

\* Setting the span to index i stores spans[i] and the half-offset h with
\* 2h = expanded[i] - spans[i].
C14_SpanStored(i) ==
    /\ ts890'.bs_span_hz = Some(spans[i + 1])
    /\ 2 * ts890'.bs_expanded_span_offset_hz = expanded[i + 1] - spans[i + 1]

\* The edges a sample takes: shifted outward by the half-offset when the
\* expanded flag is true, the stored edges otherwise; the sample adds the
\* static frequency offset to both.
C14_SampleEdges ==
    /\ Len(queue'.items) = 1
    /\ bs_expanded_lower_hz(ts890) =
           ts890.bs_lower_hz[1] -
               (IF ts890.bs_expanded = Some(TRUE)
                THEN ts890.bs_expanded_span_offset_hz ELSE 0)
    /\ bs_expanded_upper_hz(ts890) =
           ts890.bs_upper_hz[1] +
               (IF ts890.bs_expanded = Some(TRUE)
                THEN ts890.bs_expanded_span_offset_hz ELSE 0)
    /\ queue'.items[1].lower_hz = bs_expanded_lower_hz(ts890) + ts890.freq_offset
    /\ queue'.items[1].upper_hz = bs_expanded_upper_hz(ts890) + ts890.freq_offset

\* C14: for every span index 0..7 the span setter stores the span of the
\* table and the half-offset (expanded - span) / 2; a sample's edges are
\* lower - offset and upper + offset when the expanded flag is true, and
\* lower and upper when it is not.
C14_SpanOffset ==
    /\ Len(spans) = 8 /\ Len(expanded) = 8
    /\ [][/\ \A i \in 0..7 : RxSpan(i) => C14_SpanStored(i)
          /\ RxSample => C14_SampleEdges]_vars

\* Span index 5 (100 kHz, expanded 300 kHz) and the expanded flag on: the
\* sample's edges are 100 kHz outside the stored ones.
C14_Witness ==
    /\ ts890.bs_span_hz = Some(100000)
    /\ ts890.bs_expanded = Some(TRUE)
    /\ ts890.freq_offset = 0
    /\ Len(queue.items) = 1
    /\ queue.items[1].lower_hz = 900000
    /\ queue.items[1].upper_hz = 1102000

\* C14 (flag off): the same span with the expanded flag off.
C14_WitnessOff ==
    /\ ts890.bs_span_hz = Some(100000)
    /\ ts890.bs_expanded = Some(FALSE)
    /\ ts890.freq_offset = 0
    /\ Len(queue.items) = 1
    /\ queue.items[1].lower_hz = 1000000
    /\ queue.items[1].upper_hz = 1002000

\* The number a decimal text "w.f" (f of one to three digits) denotes, in
\* thousandths.
DotAt(text) == CHOOSE i \in 1..Len(text) : text[i] = "."
DecimalMilli(text) ==
    LET w == PyInt(SubSeq(text, 1, DotAt(text) - 1), 10).val
        f == SubSeq(text, DotAt(text) + 1, Len(text))
        n == PyInt(f, 10).val
    IN  1000 * w + (IF Len(f) = 1 THEN 100 * n ELSE IF Len(f) = 2 THEN 10 * n ELSE n)

\* Mode Fixed, edges (1000000, 1002000), expanded flag off, offset 0.
C15_Setting(t) ==
    /\ t.bs_mode = Some(1)
    /\ Edges(t) = <<Some(1000000), Some(1002000)>>
    /\ t.bs_expanded # Some(TRUE)
    /\ t.freq_offset = 0

\* The sample of the all-zero spectrum line in that setting.
C15_Sample ==
    [data |-> [k \in 1..640 |-> 140], lower_hz |-> 1000000, upper_hz |-> 1002000]

\* The document published for it: 1000 kHz and 1002 kHz, written by str() of
\* the float quotient as 1000.0 and 1002.0.
C15_IsTheDocument(doc) ==
    /\ doc.LowScopeFrequency = <<"1", "0", "0", "0", ".", "0">>
    /\ DecimalMilli(doc.LowScopeFrequency) = 1000 * 1000
    /\ doc.HighScopeFrequency = <<"1", "0", "0", "2", ".", "0">>
    /\ DecimalMilli(doc.HighScopeFrequency) = 1002 * 1000
    /\ doc.DataCount = <<"6", "4", "0">>
    /\ Len(doc.SpectrumData) = 640
    /\ \A k \in 1..640 : doc.SpectrumData[k] = 140

C15_Step ==
    /\ (C15_Setting(ts890) /\ RxLine(LINE_A)) =>
           /\ queue'.items # << >>
           /\ queue'.items[Len(queue'.items)] = C15_Sample
    /\ (published' # published /\ queue.items # << >>
            /\ Head(queue.items) = C15_Sample) =>
           /\ Len(published') = Len(published) + 1
           /\ C15_IsTheDocument(published'[Len(published')])
           /\ queue'.items = Tail(queue.items)

\* C15: with mode Fixed, edges (1000000, 1002000) from a bulk-edges line,
\* expanded flag off and frequency offset 0, one well-formed spectrum line
\* of 640 zero bytes gives exactly one published document: LowScopeFrequency
\* 1000, HighScopeFrequency 1002, DataCount 640, SpectrumData 640 times 140.
C15_EndToEnd ==
    /\ []((nrx = 3 /\ C15_Setting(ts890)) =>
              Len(published) + Len(queue.items) <= 1)
    /\ [][C15_Step]_vars

\* 'BS31;', the bulk-edges line and the all-zero spectrum line were handled
\* and the one document is out.
C15_Witness ==
    /\ nrx = 3
    /\ C15_Setting(ts890)
    /\ queue.items = << >>
    /\ Len(published) = 1
    /\ C15_IsTheDocument(published[1])

(***************************************************************************)
(* The login command: the program is started with an account name, a      *)
(* password and an account type, connects and logs in.                     *)
(***************************************************************************)
\* Values of the -a and -p options (any text, the empty one included).
Accounts ==
    {<< >>, <<"A">>, <<"O", "P">>, <<"0", "7">>, <<"u", "s", "e", "r">>,
     <<"a", "d", "m", "i", "n", ";">>,
     <<"k", "e", "n", "w", "o", "o", "d", "0", "1", "2">>,
     <<"t", "s", "8", "9", "0", "o", "p", "e", "r", "a", "t", "o", "r">>}
Passwords ==
    {<< >>, <<"1">>, <<"P", "W">>, <<"#", "#">>, <<"0", "2", "0", "2">>,
     <<"s", "e", "c", "r", "e", "t">>,
     <<"p", "a", "s", "s", "w", "o", "r", "d", "1", "2", "3">>,
     <<"P", "W", "P", "W", "P", "W", "P", "W", "P", "W", "P", "W">>}

InitLogin ==
    /\ \E a \in Accounts, p \in Passwords, u \in BOOLEAN :
           ts890 = [Ts890Init(~u, 0, FALSE) EXCEPT !.account = a, !.password = p]
    /\ queue = Queue
    /\ pc = "start"
    /\ exc = "none"
    /\ writer = "none"
    /\ resp = None
    /\ out = << >>
    /\ late = << >>
    /\ rx_pc = "idle"
    /\ rx_exc = "none"
    /\ bandscope_on = FALSE
    /\ nrx = 0
    /\ hb_pc = "idle"
    /\ beats = 0
    /\ pub_pc = "run"
    /\ published = << >>

NextLogin ==
    \/ OpenConnection
    \/ \E reply \in Replies : ConnectAck(reply)

SpecLogin == InitLogin /\ [][NextLogin]_vars

\* cmd is '##ID' + type digit + two 2-digit lengths + name + password + ';'.
IsLoginCommand(cmd, t) ==
    LET la == Len(t.account)
        lp == Len(t.password)
    IN  /\ Len(cmd) = 10 + la + lp
        /\ SubSeq(cmd, 1, 4) = <<"#", "#", "I", "D">>
        /\ cmd[5] = (IF t.is_admin THEN "0" ELSE "1")
        /\ PyInt(SubSeq(cmd, 6, 7), 10) = [ok |-> TRUE, val |-> la]
        /\ PyInt(SubSeq(cmd, 8, 9), 10) = [ok |-> TRUE, val |-> lp]
        /\ \A k \in 6..9 : cmd[k] \in {DecDigits[d] : d \in 1..10}
        /\ SubSeq(cmd, 10, 9 + la) = t.account
        /\ SubSeq(cmd, 10 + la, 9 + la + lp) = t.password
        /\ cmd[10 + la + lp] = ";"

\* C16: the login command is '##ID', the account-type digit (0 admin, 1
\* user), the zero-padded 2-digit lengths of name and password, the name,
\* the password and ';'; for OP / PW / admin it is exactly ##ID00202OPPW;.
C16_LoginFormat ==
    Len(out) >= 2 =>
        /\ IsLoginCommand(out[2], ts890)
        /\ (ts890.account = <<"O", "P">> /\ ts890.password = <<"P", "W">>
                /\ ts890.is_admin) =>
               out[2] = <<"#", "#", "I", "D", "0", "0", "2", "0", "2",
                          "O", "P", "P", "W", ";">>

\* The login of OP / PW as administrator has been written.
C16_Witness ==
    /\ pc = "id"
    /\ Len(out) = 2
    /\ ts890.account = <<"O", "P">>
    /\ ts890.password = <<"P", "W">>
    /\ ts890.is_admin
    /\ out[2][5] = "0"

\* A user login with a name and a password of ten or more characters.
C16_WitnessUser ==
    /\ Len(out) = 2
    /\ ~ts890.is_admin
    /\ Len(ts890.account) = 13
    /\ Len(ts890.password) = 11
    /\ SubSeq(out[2], 5, 9) = <<"1", "1", "3", "1", "1">>

\* The well-formed carrier reports of the feed: VFO A at 1002500 Hz, VFO B
\* at 2500 Hz.
CarrierLines == {VFO("A", C_1002500), VFO("B", C_2500)}

\* The carrier the feed reports for the active VFO.
ActiveCarrier(t) == IF vfo_a_active(t) THEN 1002500 ELSE 2500

C17_Step ==
    \A l \in CarrierLines :
        (/\ RxLine(l)
         /\ is_centre_mode(ts890')
         /\ EdgesKnown(ts890')
         /\ vfo_a_active(ts890') \/ vfo_b_active(ts890')) =>
            /\ 2 * ts890'.bs_lower_hz[1] = 2 * ActiveCarrier(ts890') - ts890'.bs_span_hz[1]
            /\ 2 * ts890'.bs_upper_hz[1] = 2 * ActiveCarrier(ts890') + ts890'.bs_span_hz[1]

\* C17: in Centre mode the edges come from the active VFO only: once a
\* carrier report has been handled and both edges are known, they are
\* c - span/2 and c + span/2 for the carrier c reported for the VFO that is
\* active (FA when VFO A is active, FB when VFO B is active).
C17_ActiveVfoOnly == [][C17_Step]_vars

\* The well-formed receiver reports: VFO A, VFO B, Memory.
ReceiverLines == {FR("0"), FR("1"), FR("2")}

C18_Step ==
    \A l \in ReceiverLines :
        (RxLine(l) /\ is_centre_mode(ts890')) =>
            /\ l = FR("0") => Has(Written, CMD_FA)
            /\ l = FR("1") => Has(Written, CMD_FB)
            /\ l = FR("2") => Has(Written, CMD_FA) \/ Has(Written, CMD_FB)

\* C18: handling a well-formed FR report while the resulting mode is Centre
\* always writes a carrier-frequency request, whichever receiver the report
\* names (VFO A, VFO B or Memory).
C18_FollowUpAlways == [][C18_Step]_vars

\* The lines filed under 'BSM', and those filed under 'FA' or 'FB'.
BulkEdgeLines == {l \in Lines : Tag(l) = <<"B", "S", "M">>}
CarrierReports == {l \in Lines : Tag(l) \in {<<"F", "A">>, <<"F", "B">>}}

C19_Step ==
    /\ \A l \in BulkEdgeLines :
           (RxLine(l) /\ ts890.bs_mode \notin {Some(1), Some(2)}) =>
               Edges(ts890') = Edges(ts890)
    /\ \A l \in CarrierReports :
           (RxLine(l) /\ ts890.bs_mode # Some(0)) =>
               Edges(ts890') = Edges(ts890)

\* C19: a bulk-edges line sets the edges only when the current mode is Fixed
\* or AutoScroll and leaves them unchanged in Centre mode and while the mode
\* is not yet learned; an FA/FB line sets the edges only when the current
\* mode is Centre and leaves them unchanged otherwise.
C19_EdgeSourceByMode == [][C19_Step]_vars

\* The FA/FB half alone.
C19_CarrierOnlyInCentre ==
    [][\A l \in CarrierReports :
           (RxLine(l) /\ ts890.bs_mode # Some(0)) =>
               Edges(ts890') = Edges(ts890)]_vars

\* The mode reports that carry a value outside 0..2 or the mode in t.
C20_NoChange(l, t) == ModeOf(l) \notin 0..2 \/ Some(ModeOf(l)) = t.bs_mode

C20_Step ==
    \A l \in ModeReports :
        (nrx' = nrx + 1 /\ C20_NoChange(l, ts890) /\ RxLine(l)) =>
            /\ ts890' = ts890
            /\ DDs(Written) = << >>
            /\ ReadinessCmd(ts890', bandscope_on') = << >>

\* C20: a mode report whose value is out of range or equal to the stored
\* mode changes no field of the status object; a repeated Centre report
\* keeps the known edges and writes neither DD00; nor DD02;, in the step
\* that handles it and in the readiness evaluation that follows it.
C20_ModeReportNoOp == [][C20_Step]_vars

\* Centre mode with known edges after a second 'BS30;': the poll burst and
\* the two reports each asked FR;, the stream was switched on once.
C20_Witness ==
    /\ nrx = 4
    /\ is_centre_mode(ts890)
    /\ EdgesKnown(ts890)
    /\ bandscope_on
    /\ Len(SelectSeq(out, LAMBDA c : c = CMD_FR)) = 3
    /\ DDs(out) = <<CMD_DD02>>

\* An out-of-range report ('BS37;') was handled in Fixed mode with the edges
\* known; nothing but the poll burst and DD02; was written.
C20_WitnessOutOfRange ==
    /\ nrx = 3
    /\ ts890.bs_mode = Some(1)
    /\ EdgesKnown(ts890)
    /\ queue.items = << >>
    /\ published = << >>
    /\ DDs(out) = <<CMD_DD02>>
    /\ ENABLED (RxLine(BS("3", "7")) /\ ts890' = ts890 /\ out' = out)

\* The pair of (expanded) edges of the status object t, plus the static
\* offset.
C21_Pair(t) ==
    LET h == IF t.bs_expanded = Some(TRUE) THEN t.bs_expanded_span_offset_hz ELSE 0
    IN  <<t.bs_lower_hz[1] - h + t.freq_offset, t.bs_upper_hz[1] + h + t.freq_offset>>

\* The queue after a step holds the samples it held, less possibly the
\* oldest, plus possibly one new sample at the tail.
C21_Kept ==
    \E k \in 0..1, a \in 0..1 :
        /\ k <= Len(queue.items)
        /\ a <= Len(queue'.items)
        /\ SubSeq(queue'.items, 1, Len(queue'.items) - a)
               = SubSeq(queue.items, 1 + k, Len(queue.items))

C21_Step ==
    /\ \A l \in WellFormedDDLines :
           (nrx' = nrx + 1 /\ has_all_required_info(ts890) /\ RxLine(l)) =>
               LET sdata == queue'.items[Len(queue'.items)]
               IN  /\ <<sdata.lower_hz, sdata.upper_hz>> = C21_Pair(ts890)
                   /\ ts890' = ts890
    /\ C21_Kept
    /\ ts890' # ts890 => queue'.items = queue.items

\* C21: a sample's two edges are the (expanded) edges of the one status
\* object its spectrum line was handled with, plus the static offset; the
\* status object does not change in that step, and a later update of mode,
\* span, expanded flag or edges changes no sample that is in the queue.
C21_ConsistentSnapshot == [][C21_Step]_vars

\* A sample taken at (1000000, 1002000) is still queued with these edges
\* after a switch to Centre made the edges unknown.
C21_Witness ==
    /\ is_centre_mode(ts890)
    /\ ~EdgesKnown(ts890)
    /\ Len(queue.items) = 1
    /\ queue.items[1].lower_hz = 1000000
    /\ queue.items[1].upper_hz = 1002000

\* A sample taken with the expanded flag on and a span reported: both edges
\* lie outside the stored ones by the same half-offset.
C21_WitnessExpanded ==
    /\ ts890.bs_expanded = Some(TRUE)
    /\ EdgesKnown(ts890)
    /\ ts890.bs_expanded_span_offset_hz > 0
    /\ Len(queue.items) = 1
    /\ queue.items[1].lower_hz = ts890.bs_lower_hz[1] - ts890.bs_expanded_span_offset_hz
    /\ queue.items[1].upper_hz = ts890.bs_upper_hz[1] + ts890.bs_expanded_span_offset_hz

\* A step of the publisher: a datagram goes out, or a sample is marked done.
C22_PublisherStep ==
    \/ published' # published
    \/ queue'.unfinished_tasks < queue.unfinished_tasks
    \/ pub_pc = "run" /\ pub_pc' # "run" /\ pc' # "exited"

C22_Step ==
    C22_PublisherStep =>
        /\ queue.items # << >>
        /\ queue'.items = Tail(queue.items)
        /\ queue'.unfinished_tasks = queue.unfinished_tasks - 1
        /\ Len(published') <= Len(published) + 1
        /\ SubSeq(published', 1, Len(published)) = published
        /\ pub_pc' = "run"

\* C22: the publisher survives a failing sample.  Every iteration ends in the
\* TypeError of awaiting sendto's None: the sample is gone from the queue
\* and marked done, at most one datagram went out for it, and the publisher
\* is back at queue.get(), ready to take the next sample; it stops only
\* when the program is torn down.
C22_PublisherSurvives ==
    /\ [](pub_pc \in {"run", "cancelled"})
    /\ [](pub_pc = "cancelled" => pc = "exited")
    /\ []((pub_pc = "run" /\ queue.items # << >>) => ENABLED Publish)
    /\ [][C22_Step]_vars

\* Two samples were admitted and both were published, one after the other.
C22_Witness ==
    /\ pub_pc = "run"
    /\ Len(published) = 2
    /\ queue.items = << >>
    /\ queue.unfinished_tasks = 0
    /\ nrx = 3

\* A step that puts a sample into the queue.
C23_Admits == queue'.unfinished_tasks > queue.unfinished_tasks

C23_Step ==
    /\ \A l \in WellFormedDDLines :
           (nrx' = nrx + 1 /\ ~EdgesKnown(ts890) /\ RxLine(l)) =>
               /\ queue' = queue
               /\ published' = published
    /\ C23_Admits =>
           /\ EdgesKnown(ts890) /\ EdgesKnown(ts890')
           /\ \E l \in WellFormedDDLines : RxLine(l)

\* C23: a spectrum line becomes a queued sample only while both edges are
\* known; a well-formed spectrum line handled while an edge is unknown
\* leaves the queue as it is, and every sample in the queue carries two
\* numbers as its edges.
C23_SampleOnlyWhenReady ==
    /\ [](\A i \in 1..Len(queue.items) :
              /\ queue.items[i].lower_hz \in Int
              /\ queue.items[i].upper_hz \in Int)
    /\ [][C23_Step]_vars

\* The stream was switched on in Fixed mode and off again by a switch to
\* Centre; a spectrum line still in flight is handled with the edges unknown
\* and leaves the empty queue empty.
C23_Witness ==
    /\ is_centre_mode(ts890)
    /\ ~EdgesKnown(ts890)
    /\ DDs(out) = <<CMD_DD02, CMD_DD00>>
    /\ queue.items = << >>
    /\ queue.unfinished_tasks = 0
    /\ ENABLED (RxLine(LINE_A) /\ queue' = queue)

(***************************************************************************)
(* A responsive radio: the session is in Active right after the poll       *)
(* burst, no read fails, and the radio answers every poll command, in the  *)
(* order the commands were written, with a well-formed report.  The mode   *)
(* and the receiver it reports are those it reported before, except that   *)
(* the mode may have been switched to Centre at the radio.                 *)
(***************************************************************************)
C_7002500 == Rep("0", 4) \o <<"7", "0", "0", "2", "5", "0", "0">>

\* The commands the radio answers with a report.
IsPoll(c) ==
    c \in {CMD_BS3, CMD_BS4, CMD_BSM0, CMD_BSO, CMD_FR, CMD_OM0, CMD_FA, CMD_FB}
Polls(cmds) == SelectSeq(cmds, IsPoll)

\* The well-formed reports the radio may give to poll command c when the
\* session's copy of its status is t.
Answers(t, c) ==
    IF c = CMD_BS3
    THEN IF t.bs_mode = None
         THEN {BS("3", "0"), BS("3", "1"), BS("3", "2")}
         ELSE {BS("3", DecDigits[t.bs_mode[1] + 1]), BS("3", "0")}
    ELSE IF c = CMD_BS4 THEN {BS("4", "0"), BS("4", "5")}
    ELSE IF c = CMD_BSM0 THEN {BSM("0", F_1000000, F_1002000)}
    ELSE IF c = CMD_BSO THEN {BS("O", "0"), BS("O", "1")}
    ELSE IF c = CMD_FR
    THEN IF t.receiver_vfo = None
         THEN {FR("0"), FR("1"), FR("2")}
         ELSE {FR(DecDigits[t.receiver_vfo[1] + 1])}
    ELSE IF c = CMD_OM0 THEN {OM("0", "3")}
    ELSE IF c = CMD_FA THEN {VFO("A", C_1002500)}
    ELSE {VFO("B", C_7002500)}

InitLive ==
    /\ ts890 = Ts890Init(TRUE, 0, FALSE)
    /\ queue = Queue
    /\ pc = "active"
    /\ exc = "none"
    /\ writer = "open"
    /\ resp = REPLY_ID1
    /\ out = SendAll(<<CMD_CN, cat_id(ts890)>>, PollBurst)
    /\ late = << >>
    /\ rx_pc = "read"
    /\ rx_exc = "none"
    /\ bandscope_on = FALSE
    /\ nrx = 0
    /\ hb_pc = "run"
    /\ beats = 0
    /\ pub_pc = "run"
    /\ published = << >>

\* The report for the oldest poll command not yet answered is read and
\* handled.
RxReply ==
    /\ nrx < Len(Polls(out))
    /\ \E l \in Answers(ts890, Polls(out)[nrx + 1]) : RxHandle(l)

NextLive ==
    \/ RxReply
    \/ RxEvaluate
    \/ Heartbeat

\* Reports that are on their way are read, the readiness re-evaluation follows
\* its handler, and the heartbeat's sleep ends.
SpecLive ==
    /\ InitLive
    /\ [][NextLive]_vars
    /\ WF_vars(RxReply)
    /\ WF_vars(RxEvaluate)
    /\ WF_vars(Heartbeat)

\* The stream is on: both edges are known and the last DD command is DD02;.
Streaming ==
    /\ bandscope_on
    /\ EdgesKnown(ts890)
    /\ DDs(out) # << >>
    /\ DDs(out)[Len(DDs(out))] = CMD_DD02

\* C24: with a responsive radio the session, once in Active, eventually
\* learns both edges and sends DD02;, whichever mode and receiver the radio
\* reports, and after every later switch to Centre (DD00; sent) the stream
\* is eventually switched on again.
C24_EventuallyStreaming == (pc = "active" /\ ~bandscope_on) ~> Streaming

\* The same unless the radio reports Memory as its receiver.
C24_StreamingUnlessMemory ==
    (pc = "active" /\ ~bandscope_on) ~> (Streaming \/ ts890.receiver_vfo = Some(2))

====
